---------------------------- MODULE Spec2Model ----------------------------
(***************************************************************************)
(* 3djuggler: the job orchestration loop of main() in src/main.go.         *)
(*                                                                         *)
(* src/main.go holds two revisions of main(): revision 1 (lines 1-427,     *)
(* string statuses, explicit reportJobStatusChange calls) and revision 2   *)
(* (lines 429-691, juggler.Status* constants, daemon.UpdateStatus, the     *)
(* in-memory deadline Job.Scheduled).  The variable rev selects the        *)
(* revision a behaviour runs; it never changes.                            *)
(*                                                                         *)
(* One tick of the loop (case <-daemon.timer.C) is one atomic step.  Time  *)
(* is counted in units of ten minutes, so waitingForButtonInterval is 1;   *)
(* any number of ticks (pollingInterval is 15 s) fits in one unit.         *)
(***************************************************************************)
EXTENDS Integers, Sequences, FiniteSets, TLC

VARIABLES rev,      \* 1 or 2: which revision of main() runs
          now,      \* the clock, time.Now()
          job,      \* daemon.job
          gizmo,    \* the file gizmostatusfile: existence and mtime
          button,   \* the file buttonfile exists
          feeder,   \* daemon.feeder and the feed task started on it
          orphans,  \* feed tasks still running on handles daemon.feeder no longer holds
          fetches,  \* number of jobs accepted so far
          ev        \* what the tick that just ended did, in order; <<>> otherwise

vars == <<rev, now, job, gizmo, button, feeder, orphans, fetches, ev>>

-----------------------------------------------------------------------------
(* Bounds of the model *)
MaxTime == 1
MaxJobs == 2

(* Program constants *)
waitingForButtonInterval == 1

StatusWaitingJob == "Waiting for job"
StatusWaitingButton == "Waiting for a button"
StatusSending == "Sending to printer"
StatusPrinting == "Printing"
StatusCancelling == "Cancelling"
StatusFinished == "Finished"
StatusButtonTimeout == "Button timeout"

Statuses ==
  {StatusWaitingJob, StatusWaitingButton, StatusSending, StatusPrinting,
   StatusCancelling, StatusFinished, StatusButtonTimeout}

(* gcodefeeder.Status; "Idle" is the value of a Job that never printed *)
FeederStatuses == {"Idle", "Printing", "MMUBusy", "FSensorBusy", "Finished", "Error"}

ProgressValues == {0, 50, 100}
RemoteProgress == {0, 50}

-----------------------------------------------------------------------------
(* The remote's answer to action 'get'. ok = FALSE stands for a transport  *)
(* or decoding error or Success = false; Id = 0 for "nothing to print".    *)
FailedResponse == [ok |-> FALSE, Id |-> 0, Status |-> "", Progress |-> 0]

EmptyResponse == [ok |-> TRUE, Id |-> 0, Status |-> "", Progress |-> 0]

JobResponse(id, status, progress) ==
  [ok |-> TRUE, Id |-> id, Status |-> status, Progress |-> progress]

(* answers to nextJob: nothing, or the queued job id with the progress the *)
(* remote stored for it                                                     *)
NextResponses(id) ==
  {FailedResponse, EmptyResponse} \cup
  {JobResponse(id, StatusWaitingJob, p) : p \in RemoteProgress}

(* answers to getJob(id): the remote's current status of the job *)
GetResponses(id) ==
  {FailedResponse, EmptyResponse} \cup
  {JobResponse(id, st, 0) : st \in {StatusWaitingButton, StatusCancelling}}

(* getJob returns nil only for a successful answer that carries a job *)
getJob(resp) == resp.ok /\ resp.Id # 0

(* the inputs of one tick: the outcome of every call the tick may make;     *)
(* repOk is the outcome of the tick's reportJobStatusChange calls           *)
NoInput ==
  [hbOk |-> TRUE, repOk |-> TRUE, next |-> FailedResponse,
   get |-> FailedResponse, createOk |-> TRUE, writeOk |-> TRUE, feederOk |-> TRUE,
   delOk |-> TRUE]

-----------------------------------------------------------------------------
NoFeeder ==
  [made |-> FALSE, status |-> "Idle", progress |-> 0, active |-> FALSE, cancelReq |-> FALSE]

NewFeeder ==
  [made |-> TRUE, status |-> "Idle", progress |-> 0, active |-> FALSE, cancelReq |-> FALSE]

Event(op, arg, id) == [op |-> op, arg |-> arg, id |-> id, status |-> ""]

Log(s, op, arg, id) == [s EXCEPT !.ev = Append(@, Event(op, arg, id))]

Outcome(ok) == IF ok THEN "ok" ELSE "error"

(* fmt.Sprintf("%0.1f", p) for the whole-number progress values of the model *)
Percent(p) == ToString(p) \o ".0"

(* mutant: the switch on feederStatus is not guarded by job.Status == "Printing" *)
statusWithProgressUnguarded(j) ==
  CASE j.feederStatus = "Printing" -> "Printing... (" \o Percent(j.Progress) \o "%)"
    [] j.feederStatus = "MMUBusy" -> "Printing paused: MMU paused printing"
    [] j.feederStatus = "FSensorBusy" -> "Printing paused: Filament sensor paused printing"
    [] OTHER -> j.Status

statusWithProgress(j) ==
  IF j.Status = StatusPrinting
    THEN CASE j.feederStatus = "Printing" -> "Printing... (" \o Percent(j.Progress) \o "%)"
           [] j.feederStatus = "MMUBusy" -> "Printing paused: MMU paused printing"
           [] j.feederStatus = "FSensorBusy" ->
                "Printing paused: Filament sensor paused printing"
           [] OTHER -> j.Status
    ELSE j.Status

(* the POST of reportJobStatusChange; err is what it returns, and every caller *)
(* only logs it.  The event keeps the raw Status next to the string sent.      *)
reportJobStatusChange(s, in) ==
  [s EXCEPT !.ev = Append(@, [op |-> "report", arg |-> statusWithProgress(s.job),
                              id |-> s.job.Id, status |-> s.job.Status]),
            !.err = ~in.repOk]

SetStatus(s, st) == [s EXCEPT !.job.Status = st]

(* daemon.UpdateStatus of revision 2 *)
UpdateStatus(s, st, in) == reportJobStatusChange(SetStatus(s, st), in)

(* a status change that both revisions report *)
ReportedChange(s, st, in) ==
  IF rev = 1 THEN reportJobStatusChange(SetStatus(s, st), in) ELSE UpdateStatus(s, st, in)

(* a status change that revision 1 makes without a report *)
PlainChange(s, st, in) ==
  IF rev = 1 THEN SetStatus(s, st) ELSE UpdateStatus(s, st, in)

(* the heartbeat; err is what it returns, and main() only logs it *)
reportStat(s, in) == [Log(s, "heartbeat", "", 0) EXCEPT !.err = ~in.hbOk]

NoGizmo == [exists |-> FALSE, mtime |-> 0]

RemoveGizmo(s) == Log([s EXCEPT !.gizmo = NoGizmo], "remove", "gizmostatusfile", 0)

RemoveButton(s) == Log([s EXCEPT !.button = FALSE], "remove", "buttonfile", 0)

CreateGizmo(s, in) ==
  IF in.createOk
    THEN Log([s EXCEPT !.gizmo = [exists |-> TRUE, mtime |-> now]], "create", "ok", 0)
    ELSE Log(s, "create", "error", 0)

(* os.Remove(buttonfile); os.Remove(gizmostatusfile); os.Create; os.Chmod *)
Arm(s, in) == Log(CreateGizmo(RemoveGizmo(RemoveButton(s)), in), "chmod", "gizmostatusfile", 0)

checkButtonPressed(s) == s.button

Cancel(s) == Log([s EXCEPT !.feeder.cancelReq = TRUE], "Cancel", "", s.job.Id)

Feed(s) == Log([s EXCEPT !.feeder.active = TRUE], "Feed", "", s.job.Id)

(* daemon.feeder, err = gcodefeeder.NewFeeder(...): the handle held before  *)
(* is dropped, and a feed task still running on it keeps running.           *)
InstallFeeder(s, in) ==
  Log([s EXCEPT !.feeder = IF in.feederOk THEN NewFeeder ELSE NoFeeder,
                !.orphans = IF s.feeder.active THEN @ + 1 ELSE @],
      "NewFeeder", Outcome(in.feederOk), s.job.Id)

-----------------------------------------------------------------------------
(* The conditions the handlers branch on *)

(* mutant: the comparison misses the remote's spelling of the status *)
RemoteCancellingMisspelt(resp) == getJob(resp) /\ resp.Status = "Canceling"

(* err == nil && ie.job.Status == "Cancelling" *)
RemoteCancelling(resp) == getJob(resp) /\ resp.Status = StatusCancelling

(* mutant: err == nil instead of err != nil *)
MarkerMissingInverted(s) == s.gizmo.exists

(* os.Stat(daemon.gizmostatusfile) fails *)
MarkerMissing(s) == ~s.gizmo.exists

(* mutant: !Before instead of After, the deadline itself still counts as waiting *)
WithinMarkerWindowInclusive(s) == s.gizmo.mtime + waitingForButtonInterval >= now

(* gizmostatusfileStat.ModTime().Add(waitingForButtonInterval).After(time.Now()) *)
WithinMarkerWindow(s) == s.gizmo.mtime + waitingForButtonInterval > now

(* mutant: Before instead of After *)
WithinScheduledBefore(s) == rev = 2 /\ s.job.Scheduled < now

(* daemon.job.Scheduled.After(time.Now()), a branch revision 2 adds *)
WithinScheduled(s) == rev = 2 /\ s.job.Scheduled > now

-----------------------------------------------------------------------------
(* The state handlers: the cases of switch daemon.job.Status *)

(* mutant: the timeout forgets daemon.job.Id = 0 *)
ButtonTimeoutKeepsId(s, in) ==
  LET s1 == ReportedChange(s, StatusButtonTimeout, in)
      s2 == PlainChange(s1, StatusWaitingJob, in)
  IN  RemoveGizmo(s2)

(* mutant: the timeout stops after reporting "Button timeout" *)
ButtonTimeoutStays(s, in) ==
  LET s1 == ReportedChange(s, StatusButtonTimeout, in)
  IN  RemoveGizmo([s1 EXCEPT !.job.Id = 0])

(* "Nobody pressed the button on time" *)
ButtonTimeout(s, in) ==
  LET s1 == ReportedChange(s, StatusButtonTimeout, in)
      s2 == PlainChange(s1, StatusWaitingJob, in)
  IN  RemoveGizmo([s2 EXCEPT !.job.Id = 0])

HandleWaitingButton(s, in) ==
  LET s0 == Log(s, "handler", StatusWaitingButton, s.job.Id)
      s1 == Log(s0, "getJob", IF getJob(in.get) THEN in.get.Status ELSE "error", s0.job.Id)
  IN  IF RemoteCancelling(in.get) THEN PlainChange(s1, StatusCancelling, in)
      ELSE IF MarkerMissing(s1) THEN ReportedChange(s1, StatusCancelling, in)
      ELSE IF WithinMarkerWindow(s1)
        THEN LET s2 == Log(s1, "checkButton", Outcome(checkButtonPressed(s1)), 0)
             IN  IF checkButtonPressed(s1) THEN ReportedChange(s2, StatusSending, in)
                 ELSE s2
      ELSE IF WithinScheduled(s1) THEN s1
      ELSE ButtonTimeout(s1, in)

(* the fields copied from ie.job after nextJob succeeded.  Revision 1 has no *)
(* Fetched field: there it only records the time of the fetch, and nothing   *)
(* reads it.                                                                 *)
AcceptJob(s, in) ==
  [s EXCEPT !.job.Id = in.next.Id,
            !.job.Progress = in.next.Progress,
            !.job.Fetched = now,
            !.job.Scheduled = IF rev = 2 THEN now + waitingForButtonInterval ELSE @,
            !.fetches = @ + 1]

(* mutant: the error of nextJob is logged, but the break is missing *)
HandleWaitingJobNoBreak(s, in) ==
  LET s0 == Log(s, "handler", StatusWaitingJob, s.job.Id)
      s1 == Log(s0, "getJob", IF getJob(in.next) THEN in.next.Status ELSE "error", 0)
      s2 == AcceptJob(s1, in)
      s3 == IF rev = 1
              THEN Arm(reportJobStatusChange(SetStatus(s2, StatusWaitingButton), in), in)
              ELSE UpdateStatus(Arm(s2, in), StatusWaitingButton, in)
  IN  HandleWaitingButton(s3, in)

HandleWaitingJob(s, in) ==
  LET s0 == Log(s, "handler", StatusWaitingJob, s.job.Id)
      s1 == Log(s0, "getJob", IF getJob(in.next) THEN in.next.Status ELSE "error", 0)
  IN  IF ~getJob(in.next) THEN s1
      ELSE LET s2 == AcceptJob(s1, in)
               s3 == IF rev = 1
                       THEN Arm(reportJobStatusChange(SetStatus(s2, StatusWaitingButton), in), in)
                       ELSE UpdateStatus(Arm(s2, in), StatusWaitingButton, in)
           IN  HandleWaitingButton(s3, in)

(* mutant: a failed NewFeeder is logged and the handler goes on *)
HandleSendingGoesOn(s, in) ==
  LET s0 == Log(s, "handler", StatusSending, s.job.Id)
      s1 == Log(s0, "WriteFile", Outcome(in.writeOk), s0.job.Id)
  IN  IF ~in.writeOk THEN s1
      ELSE Feed(ReportedChange(InstallFeeder(s1, in), StatusPrinting, in))

HandleSending(s, in) ==
  LET s0 == Log(s, "handler", StatusSending, s.job.Id)
      s1 == Log(s0, "WriteFile", Outcome(in.writeOk), s0.job.Id)
  IN  IF ~in.writeOk THEN s1
      ELSE LET s2 == InstallFeeder(s1, in)
           IN  IF ~in.feederOk THEN s2
               ELSE Feed(ReportedChange(s2, StatusPrinting, in))

(* mutant: the switch has no case gcodefeeder.Error *)
StatusAfterFeederNoError(st, fs) ==
  CASE fs = "Finished" -> StatusFinished
    [] OTHER -> st

(* the status the feeder's own status gives a printing job *)
StatusAfterFeeder(st, fs) ==
  CASE fs = "Finished" -> StatusFinished
    [] fs = "Error" -> StatusCancelling
    [] OTHER -> st

HandlePrinting(s, in) ==
  LET s0 == Log(s, "handler", StatusPrinting, s.job.Id)
  IN  IF MarkerMissing(s0)
        THEN IF rev = 1
               THEN reportJobStatusChange(Cancel(SetStatus(s0, StatusCancelling)), in)
               ELSE UpdateStatus(Cancel(s0), StatusCancelling, in)
      ELSE LET s1 == Log(s0, "getJob", IF getJob(in.get) THEN in.get.Status ELSE "error",
                         s0.job.Id)
           IN  IF RemoteCancelling(in.get)
                 THEN Cancel(ReportedChange(s1, StatusCancelling, in))
               ELSE LET s2 == [s1 EXCEPT !.job.Progress = s1.feeder.progress,
                                         !.job.feederStatus = s1.feeder.status]
                    IN  ReportedChange(s2, StatusAfterFeeder(s2.job.Status, s2.job.feederStatus),
                                       in)

(* mutant: a failed deleteJob breaks, to be retried at the next tick *)
HandleCleanupRetries(s, in) ==
  LET s0 == Log(s, "handler", s.job.Status, s.job.Id)
      s1 == Log(s0, "deleteJob", Outcome(in.delOk), s0.job.Id)
  IN  IF ~in.delOk THEN s1
      ELSE RemoveGizmo(PlainChange([s1 EXCEPT !.job.Id = 0], StatusWaitingJob, in))

(* case "Cancelling" falls through to case "Finished" *)
HandleCleanup(s, in) ==
  LET s0 == Log(s, "handler", s.job.Status, s.job.Id)
      s1 == Log(s0, "deleteJob", Outcome(in.delOk), s0.job.Id)
  IN  RemoveGizmo(PlainChange([s1 EXCEPT !.job.Id = 0], StatusWaitingJob, in))

(* mutant: case "Printing" falls through into the cleanup once the job is over *)
DispatchFallsThrough(s, in) ==
  CASE s.job.Status = StatusWaitingJob -> HandleWaitingJob(s, in)
    [] s.job.Status = StatusWaitingButton -> HandleWaitingButton(s, in)
    [] s.job.Status = StatusSending -> HandleSending(s, in)
    [] s.job.Status = StatusPrinting ->
         LET s1 == HandlePrinting(s, in)
         IN  IF s1.job.Status = StatusPrinting THEN s1 ELSE HandleCleanup(s1, in)
    [] s.job.Status \in {StatusCancelling, StatusFinished} -> HandleCleanup(s, in)
    [] OTHER -> Log(s, "weird", s.job.Status, s.job.Id)

Dispatch(s, in) ==
  CASE s.job.Status = StatusWaitingJob -> HandleWaitingJob(s, in)
    [] s.job.Status = StatusWaitingButton -> HandleWaitingButton(s, in)
    [] s.job.Status = StatusSending -> HandleSending(s, in)
    [] s.job.Status = StatusPrinting -> HandlePrinting(s, in)
    [] s.job.Status \in {StatusCancelling, StatusFinished} -> HandleCleanup(s, in)
    [] OTHER -> Log(s, "weird", s.job.Status, s.job.Id)

(* mutant: a failed heartbeat skips the switch *)
TickBodyGivesUp(s, in) ==
  IF reportStat(s, in).err THEN reportStat(s, in) ELSE Dispatch(reportStat(s, in), in)

(* one iteration of the loop: reportStat, then the switch *)
TickBody(s, in) == Dispatch(reportStat(s, in), in)

-----------------------------------------------------------------------------
(* The state after main() built the daemon: job: &Job{Status: "Waiting for job"}, *)
(* no feeder yet, no files in /tmp.                                                *)
Init ==
  /\ rev \in {1, 2}
  /\ now = 0
  /\ job = [Id |-> 0, Status |-> StatusWaitingJob, Progress |-> 0, feederStatus |-> "Idle",
            Fetched |-> 0, Scheduled |-> 0]
  /\ gizmo = NoGizmo
  /\ button = FALSE
  /\ feeder = NoFeeder
  /\ orphans = 0
  /\ fetches = 0
  /\ ev = <<>>

(* what a tick starts from; err is main()'s local variable err *)
Start ==
  [job |-> job, gizmo |-> gizmo, button |-> button, feeder |-> feeder,
   orphans |-> orphans, fetches |-> fetches, ev |-> <<>>, err |-> FALSE]

(* case <-daemon.timer.C: the whole body of the loop with inputs in *)
Tick(in) ==
  \E r \in {TickBody(Start, in)} :
      /\ job' = r.job
      /\ gizmo' = r.gizmo
      /\ button' = r.button
      /\ feeder' = r.feeder
      /\ orphans' = r.orphans
      /\ fetches' = r.fetches
      /\ ev' = r.ev
      /\ UNCHANGED <<rev, now>>

(* the outcomes of the heartbeat and of the status reports *)
WithNet(in, hb, rep) == [in EXCEPT !.hbOk = hb, !.repOk = rep]

(* the id the remote gives the next job it hands out *)
NextId == fetches + 1

(* the outcomes of the other calls the handler of status st may make; the  *)
(* remote hands out at most MaxJobs jobs                                    *)
HandlerInputs(st) ==
  CASE st = StatusWaitingJob ->
         {[NoInput EXCEPT !.next = nx] : nx \in {r \in NextResponses(NextId) : ~getJob(r)}} \cup
         {[NoInput EXCEPT !.next = nx, !.get = gt, !.createOk = cr] :
            nx \in {r \in NextResponses(NextId) : getJob(r) /\ fetches < MaxJobs},
            gt \in GetResponses(NextId), cr \in BOOLEAN}
    [] st \in {StatusWaitingButton, StatusPrinting} ->
         {[NoInput EXCEPT !.get = gt] : gt \in GetResponses(job.Id)}
    [] st = StatusSending ->
         {[NoInput EXCEPT !.writeOk = wr, !.feederOk = fd] : wr \in BOOLEAN, fd \in BOOLEAN}
    [] st \in {StatusCancelling, StatusFinished} ->
         {[NoInput EXCEPT !.delOk = dl] : dl \in BOOLEAN}
    [] OTHER -> {NoInput}

TickIn(accept) ==
  \E in \in HandlerInputs(job.Status), hb \in BOOLEAN, rep \in BOOLEAN :
     /\ getJob(in.next) = accept
     /\ Tick(WithNet(in, hb, rep))

(* nothing to fetch, or the fetch failed *)
TickNoJob == job.Status = StatusWaitingJob /\ TickIn(FALSE)

(* a job is fetched *)
TickNewJob == job.Status = StatusWaitingJob /\ TickIn(TRUE)

TickWaitingButton == job.Status = StatusWaitingButton /\ TickIn(FALSE)

TickSending == job.Status = StatusSending /\ TickIn(FALSE)

TickPrinting == job.Status = StatusPrinting /\ TickIn(FALSE)

TickCleanup == job.Status \in {StatusCancelling, StatusFinished} /\ TickIn(FALSE)

-----------------------------------------------------------------------------
(* The environment: the clock, the device-side agent, the feed task *)

Advance ==
  /\ now < MaxTime
  /\ now' = now + 1
  /\ ev' = <<>>
  /\ UNCHANGED <<rev, job, gizmo, button, feeder, orphans, fetches>>

(* the device-side agent cancels: it removes the marker *)
DeviceRemove ==
  /\ gizmo.exists
  /\ gizmo' = NoGizmo
  /\ ev' = <<>>
  /\ UNCHANGED <<rev, now, job, button, feeder, orphans, fetches>>

(* the device-side agent changes the marker's mtime *)
DeviceTouch ==
  /\ gizmo.exists
  /\ \E t \in 0..now :
       /\ t # gizmo.mtime
       /\ gizmo' = [gizmo EXCEPT !.mtime = t]
  /\ ev' = <<>>
  /\ UNCHANGED <<rev, now, job, button, feeder, orphans, fetches>>

(* somebody presses the button: the agent creates buttonfile *)
DevicePress ==
  /\ ~button
  /\ button' = TRUE
  /\ ev' = <<>>
  /\ UNCHANGED <<rev, now, job, gizmo, feeder, orphans, fetches>>

(* the feed task started by go daemon.feeder.Feed() runs on; progress only grows. *)
(* Once Cancel() was called nothing reads the handle again, and the task only     *)
(* stops.                                                                          *)
FeederStep ==
  /\ feeder.active
  /\ \/ \E st \in {"Printing", "MMUBusy", "FSensorBusy"}, p \in ProgressValues :
          /\ ~feeder.cancelReq
          /\ p >= feeder.progress
          /\ <<st, p>> # <<feeder.status, feeder.progress>>
          /\ feeder' = [feeder EXCEPT !.status = st, !.progress = p]
     \/ /\ ~feeder.cancelReq
        /\ feeder' = [feeder EXCEPT !.status = "Finished", !.progress = 100, !.active = FALSE]
     \/ /\ ~feeder.cancelReq
        /\ feeder' = [feeder EXCEPT !.status = "Error", !.active = FALSE]
     \/ /\ feeder.cancelReq
        /\ feeder' = [feeder EXCEPT !.active = FALSE]
  /\ ev' = <<>>
  /\ UNCHANGED <<rev, now, job, gizmo, button, orphans, fetches>>

(* a feed task on a dropped handle ends *)
OrphanStop ==
  /\ orphans > 0
  /\ orphans' = orphans - 1
  /\ ev' = <<>>
  /\ UNCHANGED <<rev, now, job, gizmo, button, feeder, fetches>>

Next ==
  \/ TickNoJob
  \/ TickNewJob
  \/ TickWaitingButton
  \/ TickSending
  \/ TickPrinting
  \/ TickCleanup
  \/ Advance
  \/ DeviceRemove
  \/ DeviceTouch
  \/ DevicePress
  \/ FeederStep
  \/ OrphanStop

Spec == Init /\ [][Next]_vars

(* the timer keeps firing: a tick that can change the state is eventually run *)
SpecFair ==
  /\ Spec
  /\ WF_vars(TickWaitingButton)
  /\ WF_vars(TickSending)
  /\ WF_vars(TickPrinting)
  /\ WF_vars(TickCleanup)

-----------------------------------------------------------------------------
(* reportJobStatusChange on its own: called once on any Job value *)
InitReport ==
  /\ rev \in {1, 2}
  /\ now = 0
  /\ job \in [Id : 0..MaxJobs, Status : Statuses, Progress : ProgressValues,
              feederStatus : FeederStatuses, Fetched : {0}, Scheduled : {0}]
  /\ gizmo = NoGizmo
  /\ button = FALSE
  /\ feeder = NoFeeder
  /\ orphans = 0
  /\ fetches = 0
  /\ ev = <<>>

ReportOnce ==
  /\ ev = <<>>
  /\ \E ok \in BOOLEAN : ev' = reportJobStatusChange(Start, [NoInput EXCEPT !.repOk = ok]).ev
  /\ UNCHANGED <<rev, now, job, gizmo, button, feeder, orphans, fetches>>

NextReport == ReportOnce

SpecReport == InitReport /\ [][NextReport]_vars

-----------------------------------------------------------------------------
(* Reading the trace of a tick *)

Has(trace, op) == \E i \in DOMAIN trace : trace[i].op = op

HasEv(trace, op, arg) == \E i \in DOMAIN trace : trace[i].op = op /\ trace[i].arg = arg

Reported(trace, st) == \E i \in DOMAIN trace : trace[i].op = "report" /\ trace[i].status = st

(* the step is a tick of the loop *)
TickStep == ev' # <<>>

(* the step is a tick that runs the handler of st *)
Runs(st) == TickStep /\ HasEv(ev', "handler", st)

(* the getJob(daemon.job.Id) of the tick succeeded and the remote said Cancelling *)
SawRemoteCancelling(trace) ==
  \E i \in DOMAIN trace :
     trace[i].op = "getJob" /\ trace[i].id # 0 /\ trace[i].arg = StatusCancelling

(* the timeout as a tick leaves it *)
TimedOut ==
  /\ Reported(ev', StatusButtonTimeout)
  /\ job'.Status = StatusWaitingJob
  /\ job'.Id = 0
  /\ ~gizmo'.exists
  /\ HasEv(ev', "remove", "gizmostatusfile")

-----------------------------------------------------------------------------
(* the marker is absent when the WaitingButton or the Printing handler runs: *)
(* at the start of the tick, or, in the tick that fetches the job, because  *)
(* os.Create failed                                                         *)
MarkerAbsentAtHandler ==
  \/ job.Status \in {StatusWaitingButton, StatusPrinting} /\ ~gizmo.exists
  \/ job.Status = StatusWaitingJob /\ Runs(StatusWaitingButton) /\ HasEv(ev', "create", "error")

(* C1: when the marker is absent while a tick runs the WaitingButton or the *)
(* Printing handler, the tick ends with Status = Cancelling, whatever the   *)
(* remote answers and whatever the button and the feeder say; in Printing   *)
(* feeder.Cancel() is called too.                                           *)
C1_MarkerAbsentCancels ==
  [][(TickStep /\ MarkerAbsentAtHandler) =>
       /\ job'.Status = StatusCancelling
       /\ job.Status = StatusPrinting => Has(ev', "Cancel") /\ feeder'.cancelReq]_vars

C1_Witness ==
  /\ job.Status = StatusCancelling
  /\ HasEv(ev, "handler", StatusPrinting)
  /\ Has(ev, "Cancel")
  /\ ~Has(ev, "getJob")

(* C2: when a tick in WaitingButton or Printing fetches the job and the     *)
(* remote says Cancelling, the tick ends with Status = Cancelling, and a    *)
(* tick that started in Printing has called feeder.Cancel().                *)
C2_RemoteCancelCancels ==
  [][(TickStep /\ SawRemoteCancelling(ev')) =>
       /\ job'.Status = StatusCancelling
       /\ job.Status = StatusPrinting => Has(ev', "Cancel") /\ feeder'.cancelReq]_vars

C2_Witness ==
  /\ job.Status = StatusCancelling
  /\ HasEv(ev, "handler", StatusPrinting)
  /\ SawRemoteCancelling(ev)
  /\ Has(ev, "Cancel")
  /\ feeder.cancelReq

(* a tick in WaitingButton at or after Fetched + waitingForButtonInterval,   *)
(* the marker in place, no button press, no remote cancellation             *)
WaitsUnconfirmed ==
  /\ TickStep
  /\ job.Status = StatusWaitingButton
  /\ gizmo.exists
  /\ ~button
  /\ ~SawRemoteCancelling(ev')
  /\ now >= job.Fetched + waitingForButtonInterval

WaitsArmed ==
  /\ TickStep
  /\ rev = 2
  /\ job.Status = StatusWaitingButton
  /\ gizmo.exists
  /\ ~SawRemoteCancelling(ev')

MarkerDeadlineAhead == gizmo.mtime + waitingForButtonInterval > now

ScheduledAhead == job.Scheduled > now

ChecksButton ==
  /\ Has(ev', "checkButton")
  /\ job'.Status = (IF button THEN StatusSending ELSE StatusWaitingButton)
  /\ job'.Id = job.Id

StaysUnchecked ==
  /\ ~Has(ev', "checkButton")
  /\ job' = job
  /\ gizmo' = gizmo

C5_IdZeroIffWaitingJob == (job.Id = 0) <=> (job.Status = StatusWaitingJob)

C5_Witness ==
  /\ Has(ev, "deleteJob")
  /\ job.Id = 0
  /\ job.Status = StatusWaitingJob

Handlers(trace) == SelectSeq(trace, LAMBDA e : e.op = "handler")

FetchedJob(trace) ==
  \E i \in DOMAIN trace : trace[i].op = "getJob" /\ trace[i].id = 0 /\ trace[i].arg # "error"

(* C6: a tick runs one handler, or WaitingJob and then WaitingButton after *)
(* a successful fetch; the cleanup runs only in a tick that starts in      *)
(* Cancelling or Finished, and the payload is staged and the feeder        *)
(* started only in a tick that starts in Sending.                          *)
C6_OneHandlerPerTick ==
  ev # <<>> =>
    LET hs == Handlers(ev)
    IN  /\ Len(hs) \in {1, 2}
        /\ Len(hs) = 2 <=> (hs[1].arg = StatusWaitingJob /\ FetchedJob(ev))
        /\ Len(hs) = 2 => hs[2].arg = StatusWaitingButton
        /\ Has(ev, "deleteJob") => hs[1].arg \in {StatusCancelling, StatusFinished}
        /\ job.Status \in {StatusCancelling, StatusFinished} => ~Has(ev, "deleteJob")
        /\ (Has(ev, "WriteFile") \/ Has(ev, "NewFeeder") \/ Has(ev, "Feed"))
             => hs[1].arg = StatusSending
        /\ (job.Status = StatusSending /\ hs[1].arg # StatusSending)
             => ~(Has(ev, "WriteFile") \/ Has(ev, "NewFeeder") \/ Has(ev, "Feed"))

(* a fetch followed by the WaitingButton handler in the same tick *)
C6_Witness ==
  /\ Len(Handlers(ev)) = 2
  /\ FetchedJob(ev)
  /\ job.Status = StatusCancelling
  /\ ~Has(ev, "deleteJob")

(* C7: the Status and Id a tick leaves are the same whether the heartbeat   *)
(* and the status reports of the tick succeed or fail.                      *)
C7_NetErrorsChangeNothing ==
  \A in \in HandlerInputs(job.Status), hb \in BOOLEAN, rep \in BOOLEAN :
     LET failing == TickBody(Start, WithNet(in, hb, rep)).job
         working == TickBody(Start, WithNet(in, TRUE, TRUE)).job
     IN  failing.Status = working.Status /\ failing.Id = working.Id

(* a tick whose heartbeat and reports all fail makes a transition *)
C7_Witness ==
  \E in \in HandlerInputs(job.Status) :
     LET r == TickBody(Start, WithNet(in, FALSE, FALSE))
     IN  /\ r.err
         /\ Has(r.ev, "report")
         /\ r.job.Status # job.Status
         /\ job.Status = StatusPrinting

(* C8: every change of Job.Status is reported in the tick that makes it.    *)
C8_EveryChangeReported ==
  [][(TickStep /\ job'.Status # job.Status) => Reported(ev', job'.Status)]_vars

(* C9: after feeder.Cancel() the orchestrator does not clean up while the   *)
(* feed task has not stopped.                                               *)
C9_WaitsForFeedTask ==
  [][(TickStep /\ job.Status = StatusCancelling /\ feeder.cancelReq /\ feeder.active) =>
       (job'.Status = StatusCancelling /\ ~Has(ev', "deleteJob"))]_vars

(* C10: while Status = Printing, Progress stays in [0,100] and does not     *)
(* decrease from one tick boundary to the next, the tick that enters        *)
(* Printing included.                                                       *)
C10_ProgressMonotone ==
  [][/\ job'.Status = StatusPrinting => job'.Progress \in 0..100
     /\ (job.Status = StatusPrinting /\ job'.Status = StatusPrinting)
          => job'.Progress >= job.Progress]_vars

(* the string the claim gives for a job *)
ClaimedString(j) ==
  IF j.Status # StatusPrinting THEN j.Status
  ELSE IF j.feederStatus = "Printing" THEN "Printing... (" \o Percent(j.Progress) \o "%)"
  ELSE IF j.feederStatus = "MMUBusy" THEN "Printing paused: MMU paused printing"
  ELSE IF j.feederStatus = "FSensorBusy" THEN "Printing paused: Filament sensor paused printing"
  ELSE j.Status

(* C11: the status string reportJobStatusChange sends is the percentage     *)
(* form of Progress, one of the two fixed paused strings or the plain       *)
(* Status, by (Status, FeederStatus, Progress); it is the plain Status      *)
(* whenever Status is not Printing.                                         *)
C11_ReportString ==
  \A i \in DOMAIN ev :
     ev[i].op = "report" =>
       /\ ev[i].arg = ClaimedString(job)
       /\ ev[i].id = job.Id
       /\ job.Status # StatusPrinting => ev[i].arg = job.Status

(* a report of a job that is not printing although its feederStatus is a   *)
(* paused one                                                              *)
C11_Witness ==
  /\ Has(ev, "report")
  /\ job.Status = StatusCancelling
  /\ job.feederStatus = "MMUBusy"
  /\ ev[1].arg = StatusCancelling

(* where the first op event of a trace that has one is *)
Pos(trace, op) == CHOOSE i \in DOMAIN trace : trace[i].op = op /\ \A k \in 1..(i-1) : trace[k].op # op

Count(trace, op) == Len(SelectSeq(trace, LAMBDA e : e.op = op))

(* C12: a tick in Sending starts the feed task only after WriteFile and     *)
(* NewFeeder succeeded, Status was set to Printing and the report was       *)
(* issued, in that order; when WriteFile or NewFeeder fails Status stays    *)
(* Sending, no feed task is started and no report is issued, and the next   *)
(* tick runs the same handler again.                                        *)
C12_SendingOrder ==
  HasEv(ev, "handler", StatusSending) =>
    /\ Has(ev, "WriteFile")
    /\ IF HasEv(ev, "WriteFile", "ok") /\ HasEv(ev, "NewFeeder", "ok")
         THEN /\ Count(ev, "WriteFile") = 1 /\ Count(ev, "NewFeeder") = 1
              /\ Count(ev, "report") = 1 /\ Count(ev, "Feed") = 1
              /\ Pos(ev, "WriteFile") < Pos(ev, "NewFeeder")
              /\ Pos(ev, "NewFeeder") < Pos(ev, "report")
              /\ Pos(ev, "report") < Pos(ev, "Feed")
              /\ ev[Pos(ev, "report")].status = StatusPrinting
              /\ job.Status = StatusPrinting
              /\ feeder.made /\ feeder.active
         ELSE /\ job.Status = StatusSending
              /\ ~Has(ev, "Feed")
              /\ ~Has(ev, "report")
              /\ HasEv(ev, "WriteFile", "error") => ~Has(ev, "NewFeeder")

(* the feeder could not be constructed: the job stays in Sending *)
C12_Witness ==
  /\ HasEv(ev, "handler", StatusSending)
  /\ HasEv(ev, "WriteFile", "ok")
  /\ HasEv(ev, "NewFeeder", "error")
  /\ job.Status = StatusSending
  /\ ~feeder.active

(* C13: a tick that starts in Cancelling or in Finished ends with           *)
(* Job.Id = 0, Status = WaitingJob and the marker removed, and has called   *)
(* deleteJob exactly once, with the nonzero Id the job had, whether         *)
(* deleteJob succeeds or fails.                                             *)
C13_CleanupAlwaysResets ==
  (HasEv(ev, "handler", StatusCancelling) \/ HasEv(ev, "handler", StatusFinished)) =>
    /\ job.Id = 0
    /\ job.Status = StatusWaitingJob
    /\ ~gizmo.exists
    /\ HasEv(ev, "remove", "gizmostatusfile")
    /\ Count(ev, "deleteJob") = 1
    /\ ev[Pos(ev, "deleteJob")].id # 0
    /\ ev[Pos(ev, "deleteJob")].id = ev[Pos(ev, "handler")].id

(* deleteJob failed in a tick that started in Finished *)
C13_Witness ==
  /\ HasEv(ev, "handler", StatusFinished)
  /\ HasEv(ev, "deleteJob", "error")
  /\ job.Id = 0
  /\ job.Status = StatusWaitingJob

(* C14: in a Printing tick with the marker present and no remote           *)
(* cancellation seen, the feeder status read in the tick alone decides the  *)
(* next Status: Finished gives Finished, Error gives Cancelling without a   *)
(* Cancel() call, anything else leaves Printing; Progress and feederStatus  *)
(* are refreshed and one status report is issued.                           *)
C14_FeederDecides ==
  [][(TickStep /\ job.Status = StatusPrinting /\ gizmo.exists /\ ~SawRemoteCancelling(ev')) =>
       /\ job'.Status = (IF feeder.status = "Finished" THEN StatusFinished
                         ELSE IF feeder.status = "Error" THEN StatusCancelling
                         ELSE StatusPrinting)
       /\ ~Has(ev', "Cancel")
       /\ feeder' = feeder
       /\ job'.Progress = feeder.progress
       /\ job'.feederStatus = feeder.status
       /\ job'.Id = job.Id
       /\ Count(ev', "report") = 1
       /\ ev'[Pos(ev', "report")].status = job'.Status]_vars

(* the feeder failed: the job is cancelled without a Cancel() call *)
C14_Witness ==
  /\ HasEv(ev, "handler", StatusPrinting)
  /\ job.Status = StatusCancelling
  /\ job.feederStatus = "Error"
  /\ ~Has(ev, "Cancel")
  /\ Has(ev, "report")

(* nextJob, the getJob(0) of the tick, returned an error *)
FetchFailed(trace) ==
  \E i \in DOMAIN trace : trace[i].op = "getJob" /\ trace[i].id = 0 /\ trace[i].arg = "error"

(* C15: when the fetch of a WaitingJob tick fails (an error, Success =      *)
(* false, or a job with Id 0), the Job, the marker and the button file are  *)
(* left as they were, no status report is sent and the WaitingButton        *)
(* handler is not entered.                                                  *)
C15_FailedFetchChangesNothing ==
  [][(TickStep /\ job.Status = StatusWaitingJob /\ FetchFailed(ev')) =>
       /\ job' = job
       /\ job'.Status = StatusWaitingJob /\ job'.Id = 0
       /\ gizmo' = gizmo
       /\ button' = button
       /\ feeder' = feeder
       /\ fetches' = fetches
       /\ ~Has(ev', "report")
       /\ ~Has(ev', "create") /\ ~Has(ev', "remove") /\ ~Has(ev', "chmod")
       /\ ~HasEv(ev', "handler", StatusWaitingButton)]_vars

(* a failed fetch while the button file of an earlier press is still there *)
C15_Witness ==
  /\ HasEv(ev, "handler", StatusWaitingJob)
  /\ FetchFailed(ev)
  /\ job.Status = StatusWaitingJob
  /\ button
  /\ fetches > 0

(* C16: at every tick boundary Job.Status is one of WaitingJob,             *)
(* WaitingButton, Sending, Printing, Cancelling, Finished; ButtonTimeout is *)
(* gone before the tick ends, and the default branch of the switch never    *)
(* runs.                                                                    *)
C16_StatusIsKnown ==
  /\ job.Status \in {StatusWaitingJob, StatusWaitingButton, StatusSending, StatusPrinting,
                      StatusCancelling, StatusFinished}
  /\ ~Has(ev, "weird")
  /\ ev # <<>> => Len(Handlers(ev)) >= 1

(* a tick that held ButtonTimeout and reported it ends in WaitingJob *)
C16_Witness ==
  /\ HasEv(ev, "handler", StatusWaitingButton)
  /\ Reported(ev, StatusButtonTimeout)
  /\ job.Status = StatusWaitingJob
  /\ ~Has(ev, "weird")

(* the feed tasks running: the one on daemon.feeder and those on handles    *)
(* that were replaced                                                       *)
ActiveFeedTasks == (IF feeder.active THEN 1 ELSE 0) + orphans

(* C17: at most one feed task is active at any time: no feeder handle is    *)
(* constructed and no Feed() is started while the feed task of an earlier   *)
(* job is still running.                                                    *)
C17_OneFeedTask ==
  /\ ActiveFeedTasks <= 1
  /\ orphans = 0

(* the device-side agent cancelled the active job: the marker is gone *)
DeviceCancelled ==
  /\ job.Status \in {StatusWaitingButton, StatusSending, StatusPrinting}
  /\ ~gizmo.exists

(* once the device cancelled the active job, Status becomes Cancelling *)
CancelEventuallyHonoured == DeviceCancelled ~> (job.Status = StatusCancelling)

(* a Sending tick of a job the device already cancelled starts no feed task *)
NoFeedAfterCancel ==
  [][(TickStep /\ job.Status = StatusSending /\ ~gizmo.exists) => ~Has(ev', "Feed")]_vars

(* C18: a cancellation of the active job is eventually honoured in          *)
(* WaitingButton, Sending and Printing: Status becomes Cancelling, also     *)
(* when WriteFile or NewFeeder keeps failing in Sending; and no feed task   *)
(* is started for a job that was cancelled before its Sending tick ran.     *)
C18_CancellationHonoured == CancelEventuallyHonoured /\ NoFeedAfterCancel

(* the device-side agent removed the marker of an armed job *)
DeviceRemovedMarker ==
  /\ job.Status \in {StatusWaitingButton, StatusPrinting}
  /\ ~gizmo.exists

(* the Printing tick read gcodefeeder.Error from the feeder *)
FeederFailed ==
  /\ job.Status = StatusPrinting
  /\ feeder.status = "Error"

(* C19: Status becomes Cancelling only because the remote reported          *)
(* Cancelling, because the device-side agent removed the marker after it    *)
(* was armed, or because the feeder reported Error; a failure of the arm    *)
(* step right after a fetch does not cancel the job.                        *)
C19_ReasonsForCancelling ==
  [][(TickStep /\ job.Status # StatusCancelling /\ job'.Status = StatusCancelling) =>
       (SawRemoteCancelling(ev') \/ DeviceRemovedMarker \/ FeederFailed)]_vars

(* C20: the report issued when a job enters Printing is the string built    *)
(* with the feederStatus of a Job that never printed, as for the first job  *)
(* after startup; no value read during an earlier job's feed session shows  *)
(* in it.                                                                   *)
C20_FirstReportIsFresh ==
  (HasEv(ev, "handler", StatusSending) /\ Has(ev, "report")) =>
    ev[Pos(ev, "report")].arg = statusWithProgress([job EXCEPT !.feederStatus = "Idle"])

=============================================================================
